---- MODULE Spec2Model ----
(***************************************************************************)
(* A model of safe-math.js: the four arithmetic reductions (add, minus,    *)
(* multiply, divide), the series functions (mean, median, mode, range),    *)
(* the conversions (percent, reciprocal, square, sqrt), the helpers        *)
(* getValues, isNumeric, expand and ascending, and the export list, over   *)
(* JavaScript values.  A call that ends in an exception returns the        *)
(* abrupt completion Thrown.  The helpers are also called on their own,    *)
(* and the functions that take an array one after the other on the same    *)
(* array, with the arrays of a call (the caller's, the rest parameter,     *)
(* the filtered copy) kept apart.                                          *)
(*                                                                         *)
(* JavaScript numbers are IEEE-754 binary64 values.  They are modelled     *)
(* exactly: a finite number is sign * m * 2^e with m an odd natural below  *)
(* 2^53 (or zero), and every arithmetic operator rounds its exact result   *)
(* to the nearest such value, ties to even.  Naturals wider than TLC's     *)
(* integers are little-endian sequences of limbs in base 2^14.             *)
(***************************************************************************)
EXTENDS Integers, Sequences, FiniteSets, Bags, TLC

(***************************************************************************)
(* Naturals of arbitrary width (the significands and the scaled integers   *)
(* of binary64 arithmetic).                                                *)
(***************************************************************************)

LimbBits == 14

LimbBase == 16384

\* TRUE, with v evaluated.  TLC puts off the evaluation of an operator's
\* argument to the argument's first use; where the use comes late, as that of
\* the accumulator of a fold, the steps would be evaluated one inside the
\* other.
Evaluated(v) == v = v

\* Body of v, with v evaluated once and first: var v = ...; Body
With(v, Body(_)) == CASE Evaluated(v) -> Body(v)

Max(a, b) == IF a > b THEN a ELSE b

Min(a, b) == IF a < b THEN a ELSE b

\* the sum of the values of a function f to the naturals: the bag with
\* f[i] + 1 copies of each i has that many elements and one more for each i
Sum(f) ==
  BagCardinality([i \in DOMAIN f |-> f[i] + 1]) - Cardinality(DOMAIN f)

Limb(a, i) == IF i >= 1 /\ i <= Len(a) THEN a[i] ELSE 0

\* a without its most significant zero limbs
BNTrim(a) ==
  IF a = <<>> \/ \A i \in 1..Len(a) : a[i] = 0 THEN <<>>
  ELSE SubSeq(a, 1, CHOOSE i \in 1..Len(a) :
                      a[i] # 0 /\ \A j \in (i + 1)..Len(a) : a[j] = 0)

\* a natural below 2^31
BNFromNat(n) ==
  BNTrim(<<n % LimbBase, (n \div LimbBase) % LimbBase,
           n \div (LimbBase * LimbBase)>>)

BNIsZero(a) == a = <<>>

\* a + b; limb i receives a carry when a lower limb overflows and every limb
\* between the two is full
BNAdd(a, b) ==
  IF a = <<>> THEN b ELSE IF b = <<>> THEN a ELSE
  LET n        == Max(Len(a), Len(b))
      s        == SubSeq([i \in 1..(n + 1) |-> Limb(a, i) + Limb(b, i)],
                         1, n + 1)
      carry(i) == \E j \in 1..(i - 1) :
                    /\ s[j] >= LimbBase
                    /\ \A k \in (j + 1)..(i - 1) : s[k] = LimbBase - 1
  IN  BNTrim([i \in 1..(n + 1) |->
               (s[i] + (IF carry(i) THEN 1 ELSE 0)) % LimbBase])

\* a - b for a >= b; limb i lends when a lower limb falls short and every
\* limb between the two is level
BNSub(a, b) ==
  IF b = <<>> THEN a ELSE
  LET d         == SubSeq([i \in 1..Len(a) |-> a[i] - Limb(b, i)], 1, Len(a))
      borrow(i) == \E j \in 1..(i - 1) :
                     /\ d[j] < 0
                     /\ \A k \in (j + 1)..(i - 1) : d[k] = 0
  IN  BNTrim([i \in 1..Len(a) |->
               (d[i] - (IF borrow(i) THEN 1 ELSE 0) + LimbBase) % LimbBase])

\* -1, 0, 1 as a < b, a = b, a > b
BNCmp(a, b) ==
  IF Len(a) # Len(b) THEN (IF Len(a) < Len(b) THEN -1 ELSE 1)
  ELSE IF a = b THEN 0
  ELSE LET i == CHOOSE j \in 1..Len(a) :
                  a[j] # b[j] /\ \A k \in (j + 1)..Len(a) : a[k] = b[k]
       IN  IF a[i] < b[i] THEN -1 ELSE 1

BNShiftLimbs(a, n) ==
  IF a = <<>> \/ n = 0 THEN a ELSE [i \in 1..n |-> 0] \o a

\* a * b, the shorter of the two of at most 7 limbs: the columns of limb
\* products are summed, and their three limbs added up in place
BNMul(a, b) ==
  LET n      == Len(a) + Len(b)
      col(k) == Sum([i \in Max(1, k + 1 - Len(b))..Min(Len(a), k) |->
                      a[i] * b[k + 1 - i]])
  IN  IF a = <<>> \/ b = <<>> THEN <<>>
      ELSE With(SubSeq([k \in 1..n |-> col(k)], 1, n), LAMBDA cols :
             BNAdd(BNAdd(BNTrim([k \in 1..n |-> cols[k] % LimbBase]),
                         BNTrim([k \in 1..n |->
                                  (Limb(cols, k - 1) \div LimbBase)
                                    % LimbBase])),
                   BNTrim([k \in 1..n |->
                            Limb(cols, k - 2) \div (LimbBase * LimbBase)])))

\* a * k for a natural k of at most 17 bits
BNMulSmall(a, k) ==
  LET n    == Len(a)
      prod == SubSeq([i \in 1..n |-> a[i] * k], 1, n)
  IN  BNAdd(BNTrim([i \in 1..n |-> prod[i] % LimbBase]),
            BNTrim([i \in 1..(n + 1) |-> Limb(prod, i - 1) \div LimbBase]))

\* the number of bits of a natural below LimbBase
BitLenSmall(n) == CHOOSE k \in 0..LimbBits : 2^k > n /\ (k = 0 \/ 2^(k - 1) <= n)

BNBitLen(a) ==
  IF a = <<>> THEN 0 ELSE (Len(a) - 1) * LimbBits + BitLenSmall(a[Len(a)])

\* a * 2^n
BNShl(a, n) ==
  LET q == n \div LimbBits
      r == n % LimbBits
  IN  IF a = <<>> \/ n = 0 THEN a
      ELSE BNShiftLimbs(BNTrim([i \in 1..(Len(a) + 1) |->
                            ((Limb(a, i) * 2^r) % LimbBase)
                              + (Limb(a, i - 1) \div 2^(LimbBits - r))]), q)

\* floor(a / 2^n)
BNShr(a, n) ==
  LET q == n \div LimbBits
      r == n % LimbBits
  IN  IF q >= Len(a) THEN <<>>
      ELSE BNTrim([i \in 1..(Len(a) - q) |->
                    (Limb(a, i + q) \div 2^r)
                      + (Limb(a, i + q + 1) % 2^r) * 2^(LimbBits - r)])

\* bit n (from 0) of a
BNBit(a, n) == (Limb(a, n \div LimbBits + 1) \div 2^(n % LimbBits)) % 2

\* TRUE iff some bit of a below bit n is set
BNLowBitsSet(a, n) ==
  LET q == n \div LimbBits
  IN  \/ \E i \in 1..Min(q, Len(a)) : a[i] # 0
      \/ Limb(a, q + 1) % 2^(n % LimbBits) # 0

\* the number of trailing zero bits of a # 0
BNTrailingZeros(a) ==
  LET i == CHOOSE j \in 1..Len(a) : a[j] # 0 /\ \A k \in 1..(j - 1) : a[k] = 0
  IN  (i - 1) * LimbBits
        + (CHOOSE t \in 0..LimbBits : a[i] % 2^(t + 1) # 0 /\ a[i] % 2^t = 0)

\* 10^n, nine decimal digits at a time
RECURSIVE BNPow10(_)
BNPow10(n) ==
  IF n <= 9 THEN BNFromNat(10^n)
  ELSE BNMul(BNPow10(n - 9), BNFromNat(10^9))

(***************************************************************************)
(* Long division: <<quotient, remainder>> of a by b # 0, one quotient limb *)
(* at a time, each estimated from the leading limbs and then corrected.    *)
(***************************************************************************)

\* <<q, r - q * b>> for the q with q * b <= r < (q + 1) * b, where r < b *
\* LimbBase and the leading limb of b is at least LimbBase / 2
BNDivDigit(r, b) ==
  IF BNCmp(r, b) < 0 THEN <<0, r>>
  ELSE LET n   == Len(b)
           top == IF Len(r) > n THEN r[n + 1] * LimbBase + r[n] ELSE r[n]
           est == Min(LimbBase - 1, top \div b[n])
       IN  With(BNMulSmall(b, est), LAMBDA p0 :
             IF BNCmp(p0, r) <= 0 THEN <<est, BNSub(r, p0)>>
             ELSE With(BNSub(p0, b), LAMBDA p1 :
                    IF BNCmp(p1, r) <= 0 THEN <<est - 1, BNSub(r, p1)>>
                    ELSE <<est - 2, BNSub(r, BNSub(p1, b))>>))

\* <<quotient, remainder>>, from the pair acc reached above limb i of a
RECURSIVE BNDivModRec(_, _, _, _)
BNDivModRec(a, b, i, acc) ==
  IF Evaluated(acc) /\ i = 0 THEN acc
  ELSE With(BNDivDigit(BNTrim(<<a[i]>> \o acc[2]), b), LAMBDA d :
         BNDivModRec(a, b, i - 1, <<<<d[1]>> \o acc[1], d[2]>>))

\* The divisor is first scaled to fill its leading limb, which keeps every
\* estimate within two of the quotient limb.
BNDivMod(a, b) ==
  LET s       == LimbBits - BitLenSmall(b[Len(b)])
      Limbs(an) == Max(Len(an) - Len(b) + 1, 0)
  IN  With(BNShl(a, s), LAMBDA an :
        With(BNDivModRec(an, BNShl(b, s), Limbs(an),
                         <<<<>>, SubSeq(an, Limbs(an) + 1, Len(an))>>),
             LAMBDA r : <<BNTrim(r[1]), BNShr(r[2], s)>>))

(***************************************************************************)
(* JavaScript numbers (binary64).  k is "nan", "inf" or "fin"; s is the    *)
(* sign bit; a finite value is m * 2^e with m odd, or m = <<>> for zero.   *)
(***************************************************************************)

MantissaBits == 53

MinExponent == -1074

MaxBinaryExponent == 1024

NaN == [ty |-> "number", k |-> "nan", s |-> 0, m |-> <<>>, e |-> 0]

Inf(s) == [ty |-> "number", k |-> "inf", s |-> s, m |-> <<>>, e |-> 0]

Zero(s) == [ty |-> "number", k |-> "fin", s |-> s, m |-> <<>>, e |-> 0]

IsNaN(x) == x.k = "nan"

IsInf(x) == x.k = "inf"

IsZero(x) == x.k = "fin" /\ x.m = <<>>

SignXor(a, b) == IF a = b THEN 0 ELSE 1

\* The canonical finite value s * m * 2^e for m of at most 53 bits.
Canon(s, m, e) ==
  IF m = <<>> THEN Zero(s)
  ELSE With(BNTrailingZeros(m), LAMBDA tz :
         IF BNBitLen(m) + e > MaxBinaryExponent THEN Inf(s)
         ELSE [ty |-> "number", k |-> "fin", s |-> s,
               m |-> BNShr(m, tz), e |-> e + tz])

\* Round to nearest, ties to even: the binary64 value nearest to
\* s * (m + f) * 2^e, where 0 < f < 1 if sticky and f = 0 otherwise.
RoundToDouble(s, m, e, sticky) ==
  IF m = <<>> THEN Zero(s)
  ELSE With(Max(BNBitLen(m) - MantissaBits, MinExponent - e), LAMBDA sh :
         LET half == BNBit(m, sh - 1) = 1
             rest == sticky \/ BNLowBitsSet(m, sh - 1)
             odd  == BNBit(m, sh) = 1
         IN  Canon(s,
                   CASE sh <= 0 -> m
                     [] sh > 0 /\ half /\ (rest \/ odd) ->
                          BNAdd(BNShr(m, sh), <<1>>)
                     [] OTHER -> BNShr(m, sh),
                   e + Max(sh, 0)))

FromNat(n) == Canon(0, BNFromNat(n), 0)

FNeg(x) == IF IsNaN(x) THEN x ELSE [x EXCEPT !.s = 1 - x.s]

\* "nan", "inf", "zero" or "fin" (finite and not zero)
Class(x) == IF x.k = "fin" /\ x.m = <<>> THEN "zero" ELSE x.k

\* x * y
FMul(x, y) ==
  LET ks == {Class(x), Class(y)}
      s  == SignXor(x.s, y.s)
  IN  CASE "nan" \in ks -> NaN
        [] "nan" \notin ks /\ "inf" \in ks ->
             IF "zero" \in ks THEN NaN ELSE Inf(s)
        [] OTHER -> RoundToDouble(s, BNMul(x.m, y.m), x.e + y.e, FALSE)

\* x + y for finite x and y, neither zero
AddFinite(x, y) ==
  LET e == Min(x.e, y.e)
  IN  With(<<BNShl(x.m, x.e - e), BNShl(y.m, y.e - e)>>, LAMBDA m :
        With(BNCmp(m[1], m[2]), LAMBDA c :
          IF x.s # y.s /\ c = 0 THEN Zero(0)
          ELSE RoundToDouble(IF x.s = y.s \/ c > 0 THEN x.s ELSE y.s,
                             CASE x.s = y.s -> BNAdd(m[1], m[2])
                               [] x.s # y.s /\ c > 0 -> BNSub(m[1], m[2])
                               [] x.s # y.s /\ c < 0 -> BNSub(m[2], m[1]),
                             e, FALSE)))

\* x + y
FAdd(x, y) ==
  LET ks == {Class(x), Class(y)}
  IN  CASE "nan" \in ks -> NaN
        [] "nan" \notin ks /\ "inf" \in ks ->
             IF ks = {"inf"} /\ y.s # x.s THEN NaN
             ELSE IF IsInf(x) THEN x ELSE y
        [] ks = {"zero"} -> Zero(IF x.s = 1 /\ y.s = 1 THEN 1 ELSE 0)
        [] ks = {"zero", "fin"} -> IF IsZero(x) THEN y ELSE x
        [] ks = {"fin"} -> AddFinite(x, y)

\* x - y
FSub(x, y) == FAdd(x, FNeg(y))

\* x / y for finite x and y, neither zero
DivFinite(x, y) ==
  LET sh == Max(0, MantissaBits + 2 + BNBitLen(y.m) - BNBitLen(x.m))
  IN  With(BNDivMod(BNShl(x.m, sh), y.m), LAMBDA qr :
        RoundToDouble(SignXor(x.s, y.s), qr[1], x.e - y.e - sh,
                      qr[2] # <<>>))

\* x / y
FDiv(x, y) ==
  LET cx == Class(x)
      cy == Class(y)
      s  == SignXor(x.s, y.s)
  IN  CASE cx = "nan" \/ cy = "nan" -> NaN
        [] cx = "inf" /\ cy # "nan" -> IF cy = "inf" THEN NaN ELSE Inf(s)
        [] cx \in {"zero", "fin"} /\ cy = "inf" -> Zero(s)
        [] cx \in {"zero", "fin"} /\ cy = "zero" ->
             IF cx = "zero" THEN NaN ELSE Inf(s)
        [] cx = "zero" /\ cy = "fin" -> Zero(s)
        [] cx = "fin" /\ cy = "fin" -> DivFinite(x, y)

\* -1, 0, 1 as x < y, x = y, x > y, for x and y not NaN
FSignOf(x) == IF IsZero(x) THEN 0 ELSE IF x.s = 1 THEN -1 ELSE 1

FCmpMagnitude(x, y) ==
  IF IsInf(x) THEN (IF IsInf(y) THEN 0 ELSE 1)
  ELSE IF IsInf(y) THEN -1
  ELSE LET e == Min(x.e, y.e)
       IN  BNCmp(BNShl(x.m, x.e - e), BNShl(y.m, y.e - e))

FCmp(x, y) ==
  LET sx == FSignOf(x)
      sy == FSignOf(y)
  IN  IF sx # sy THEN (IF sx < sy THEN -1 ELSE 1)
      ELSE IF sx = 0 THEN 0
      ELSE sx * FCmpMagnitude(x, y)

\* x === y on numbers
FEq(x, y) == ~IsNaN(x) /\ ~IsNaN(y) /\ FCmp(x, y) = 0

\* The number denoted by the decimal s * d * 10^p (d a natural, p an integer),
\* as a numeric literal or a numeric string denotes it.
DecimalToDouble(s, d, p) ==
  IF d = <<>> THEN Zero(s)
  ELSE With(BNPow10(IF p < 0 THEN -p ELSE p), LAMBDA ten :
         LET sh == Max(0, MantissaBits + 2 + BNBitLen(ten) - BNBitLen(d))
         IN  With(IF p < 0 THEN BNDivMod(BNShl(d, sh), ten)
                  ELSE <<BNMul(d, ten), <<>>>>, LAMBDA qr :
               RoundToDouble(s, qr[1], IF p < 0 THEN -sh ELSE 0,
                             qr[2] # <<>>)))

\* Math.pow(10, c) for a natural c
Pow10(c) == RoundToDouble(0, BNPow10(c), 0, FALSE)

(***************************************************************************)
(* JavaScript strings are sequences of one-character strings.              *)
(***************************************************************************)

DigitChars == <<"0", "1", "2", "3", "4", "5", "6", "7", "8", "9">>

IsDigit(c) == \E i \in 1..10 : DigitChars[i] = c

DigitVal(c) == (CHOOSE i \in 1..10 : DigitChars[i] = c) - 1

WhiteSpace == {" ", "\t", "\n"}

MaxOf(S) == CHOOSE i \in S : \A j \in S : j <= i

MinOf(S) == CHOOSE i \in S : \A j \in S : i <= j

\* the k decimal digits of a natural n below 10^k, k <= 9
PadChars(n, k) ==
  SubSeq([i \in 1..k |-> DigitChars[((n \div 10^(k - i)) % 10) + 1]], 1, k)

\* the decimal digits of a natural n below 2^31, most significant first
NatToChars(n) ==
  IF n >= 10^9 THEN PadChars(n \div 10^9, 1) \o PadChars(n % 10^9, 9)
  ELSE PadChars(n, CHOOSE k \in 1..9 : n < 10^k /\ (k = 1 \/ n >= 10^(k - 1)))

\* the natural below 2^31 that the limbs of a make
BNToNat(a) == Limb(a, 1) + Limb(a, 2) * LimbBase + Limb(a, 3) * LimbBase * LimbBase

\* the decimal digits of a, most significant first (<<>> for 0), nine at a
\* time
RECURSIVE BNToChars(_)
BNToChars(a) ==
  IF a = <<>> THEN <<>>
  ELSE IF BNCmp(a, BNFromNat(10^9)) < 0 THEN NatToChars(BNToNat(a))
  ELSE With(BNDivMod(a, BNFromNat(10^9)), LAMBDA qr :
         BNToChars(qr[1]) \o PadChars(BNToNat(qr[2]), 9))

\* the natural written by the digit characters cs[i..j], j - i < 9
CharsToNat(cs, i, j) ==
  Sum([t \in 1..(j - i + 1) |-> DigitVal(cs[i + t - 1]) * 10^(j - i + 1 - t)])

\* the natural written by the digit characters cs[i..j], nine at a time
RECURSIVE CharsToBN(_, _, _)
CharsToBN(cs, i, j) ==
  IF j - i < 9 THEN BNFromNat(CharsToNat(cs, i, j))
  ELSE BNAdd(BNMul(CharsToBN(cs, i, j - 9), BNFromNat(10^9)),
             BNFromNat(CharsToNat(cs, j - 8, j)))

Zeros(n) == [i \in 1..n |-> "0"]

\* cs without its trailing "0"s, keeping one character
StripTrailingZeros(cs) ==
  SubSeq(cs, 1, MaxOf({1} \cup {i \in 1..Len(cs) : cs[i] # "0"}))

(***************************************************************************)
(* Number::toString(x), radix 10: the shortest decimal digit string that   *)
(* converts back to x (the closest to x among the shortest), laid out in   *)
(* fixed or exponent notation.                                             *)
(***************************************************************************)

GridDigits == 18

\* a lower estimate of the n with 10^(n-1) <= v < 10^n for a v of len bits:
\* n is the estimate or one more
DecimalExponentEstimate(len) ==
  (IF len >= 1 THEN ((len - 1) * 30102) \div 100000
   ELSE ((len - 1) * 30103) \div 100000) + 1

\* <<floor(v * 2^e * 10^p), exact>> for a natural v
ScaleToGrid(v, e, p) ==
  With(BNPow10(IF p < 0 THEN -p ELSE p), LAMBDA ten :
    IF p >= 0
    THEN With(BNMul(v, ten), LAMBDA num :
           IF e >= 0 THEN <<BNShl(num, e), TRUE>>
           ELSE <<BNShr(num, -e), ~BNLowBitsSet(num, -e)>>)
    ELSE With(BNDivMod(BNShl(v, Max(e, 0)), BNShl(ten, Max(-e, 0))),
              LAMBDA qr : <<qr[1], qr[2] = <<>>>>))

\* -1, 0, 1 as the digit sequences a and b of one length compare
CmpDigits(a, b) ==
  IF a = b THEN 0
  ELSE LET i == CHOOSE j \in 1..Len(a) :
                  a[j] # b[j] /\ \A k \in 1..(j - 1) : a[k] = b[k]
       IN  IF DigitVal(a[i]) < DigitVal(b[i]) THEN -1 ELSE 1

\* ds with "0"s before it, n characters in all
PadLeft(ds, n) == Zeros(n - Len(ds)) \o ds

\* the digits of the natural of digits ds, plus one
Increment(ds) ==
  LET below == {i \in 1..Len(ds) : ds[i] # "9"}
  IN  IF below = {} THEN <<"1">> \o Zeros(Len(ds))
      ELSE SubSeq([i \in 1..Len(ds) |->
                    IF i < MaxOf(below) THEN ds[i]
                    ELSE IF i = MaxOf(below)
                    THEN DigitChars[DigitVal(ds[i]) + 2]
                    ELSE "0"], 1, Len(ds))

\* the digits of 10^(Len(X) - k) minus the natural that the digits of X
\* after the first k make, Len(X) + 1 characters in all
Complement(X, k) ==
  LET D    == Len(X)
      some == {i \in (k + 1)..D : X[i] # "0"}
  IN  IF some = {} THEN Zeros(k) \o <<"1">> \o Zeros(D - k)
      ELSE Zeros(k + 1)
           \o [i \in 1..(D - k) |->
                 IF i + k < MaxOf(some) THEN DigitChars[10 - DigitVal(X[i + k])]
                 ELSE IF i + k = MaxOf(some)
                 THEN DigitChars[11 - DigitVal(X[i + k])]
                 ELSE "0"]

\* The k-digit decimals next to a value: fits tells whether one of the two
\* k-digit neighbours of the value reads back as the value, digits is the
\* nearer of those that do (the even one of two equally near).  X is the
\* digits of the value on a grid of at least 18 significant digits, exact
\* whether the value lies on the grid; lo and hi are the distances on the
\* grid down and up to the ends of the rounding interval of the value, each
\* with its exactness; even tells whether the ends themselves round to the
\* value.
ShortestOf(k, X, exact, lo, hi, even) ==
  With(<<Zeros(k + 1) \o SubSeq(X, k + 1, Len(X)), Complement(X, k)>>,
       LAMBDA t :
    With(<<CmpDigits(t[1], lo[1]), CmpDigits(t[2], hi[1]),
           CmpDigits(t[1], t[2])>>, LAMBDA c :
      LET tail == t[1]
          tl   == c[1]
          ch   == c[2]
          mid  == c[3]
          nil  == Zeros(Len(X) + 1)
          fin  == /\ (tl < 0 \/ (tl = 0 /\ lo[2] /\ even))
                  /\ (tail # nil \/ hi[1] # nil \/ ~hi[2] \/ even)
          cin  == ch < 0 \/ (ch = 0 /\ (~hi[2] \/ even))
          fdig == SubSeq(X, 1, k)
      IN  With(<<fin, cin>>, LAMBDA in :
            LET useC == IF in[1] /\ in[2]
                        THEN \/ mid > 0
                             \/ mid = 0 /\ (~exact \/ DigitVal(X[k]) % 2 = 1)
                        ELSE in[2]
            IN  [fits   |-> in[1] \/ in[2],
                 digits |-> IF useC THEN Increment(fdig) ELSE fdig])))

\* [digits, n]: the shortest digits that, read as 0.digits * 10^n, give back
\* m * 2^e
ShortestDecimal(m, e) ==
  With(<<GridDigits - DecimalExponentEstimate(BNBitLen(m) + e),
         Max(e - (MantissaBits - BNBitLen(m)), MinExponent)>>, LAMBDA pE :
    LET p    == pE[1]
        E53  == pE[2]
        pow2 == m = <<1>> /\ E53 > MinExponent
    IN  \* the value and the two ends of its rounding interval, in quarters
        \* of the unit 2^E53
        With(BNShl(m, e - E53 + 2), LAMBDA X4 :
        With(<<X4, BNSub(X4, IF pow2 THEN <<1>> ELSE <<2>>),
               BNAdd(X4, <<2>>)>>, LAMBDA v :
        With(SubSeq([i \in 1..3 |-> ScaleToGrid(v[i], E53 - 2, p)], 1, 3),
             LAMBDA g :
        With(<<g[1][1], BNSub(g[1][1], g[2][1]), BNSub(g[3][1], g[1][1])>>,
             LAMBDA w :
        With(SubSeq([i \in 1..3 |-> BNToChars(w[i])], 1, 3), LAMBDA cs :
          LET X     == cs[1]
              down  == <<PadLeft(cs[2], Len(X) + 1), g[2][2]>>
              up    == <<PadLeft(cs[3], Len(X) + 1), g[3][2]>>
              Of(k) == ShortestOf(k, X, g[1][2], down, up, e > E53)
          IN  With(SubSeq([i \in 1..(GridDigits - 1) |-> Of(i)],
                          1, GridDigits - 1), LAMBDA of :
              With(CHOOSE i \in 1..(GridDigits - 1) :
                     of[i].fits /\ \A j \in 1..(i - 1) : ~of[j].fits,
                   LAMBDA k :
                [digits |-> of[k].digits,
                 n      |-> Len(of[k].digits) + Len(X) - k - p]))))))))

\* the layout of Number::toString for digits ds (no trailing zero) and n
\* with value 0.ds * 10^n
NumberLayout(ds, n) ==
  LET k == Len(ds)
  IN  IF k <= n /\ n <= 21 THEN ds \o Zeros(n - k)
      ELSE IF 0 < n /\ n <= 21
      THEN SubSeq(ds, 1, n) \o <<".">> \o SubSeq(ds, n + 1, k)
      ELSE IF -6 < n /\ n <= 0 THEN <<"0", ".">> \o Zeros(-n) \o ds
      ELSE LET ex == <<"e", IF n - 1 < 0 THEN "-" ELSE "+">>
                       \o NatToChars(IF n - 1 < 0 THEN 1 - n ELSE n - 1)
           IN  IF k = 1 THEN ds \o ex
               ELSE <<ds[1]>> \o <<".">> \o SubSeq(ds, 2, k) \o ex

NumberToString(x) ==
  LET sign == IF x.s = 1 THEN <<"-">> ELSE <<>>
  IN  CASE Class(x) = "nan"  -> <<"N", "a", "N">>
        [] Class(x) = "inf"  ->
             sign \o <<"I", "n", "f", "i", "n", "i", "t", "y">>
        [] Class(x) = "zero" -> <<"0">>
        [] Class(x) = "fin"  ->
             With(ShortestDecimal(x.m, x.e), LAMBDA sd :
               sign \o NumberLayout(StripTrailingZeros(sd.digits), sd.n))

(***************************************************************************)
(* StringToNumber: the value of a string as a StringNumericLiteral         *)
(* (decimal forms and Infinity), NaN when it is none.                      *)
(***************************************************************************)

\* String.prototype.trim
Trim(cs) ==
  LET ns == {i \in 1..Len(cs) : cs[i] \notin WhiteSpace}
  IN  IF ns = {} THEN <<>> ELSE SubSeq(cs, MinOf(ns), MaxOf(ns))

\* the number of digit characters of cs from position i on
DigitRun(cs, i) ==
  (CHOOSE j \in i..(Len(cs) + 1) :
     /\ j = Len(cs) + 1 \/ ~IsDigit(cs[j])
     /\ \A k \in i..(j - 1) : IsDigit(cs[k])) - i

\* an unsigned decimal literal: digits [. digits] [e [+-] digits]
UnsignedDecimal(cs, s) ==
  With(DigitRun(cs, 1), LAMBDA ni :
    With(ni + 1 <= Len(cs) /\ cs[ni + 1] = ".", LAMBDA dot :
    With(IF dot THEN ni + 2 ELSE ni + 1, LAMBDA f1 :
    With(IF dot THEN DigitRun(cs, f1) ELSE 0, LAMBDA nf :
    With(f1 + nf <= Len(cs) /\ cs[f1 + nf] \in {"e", "E"}, LAMBDA hasE :
    With(hasE /\ f1 + nf + 1 <= Len(cs)
              /\ cs[f1 + nf + 1] \in {"+", "-"}, LAMBDA sgn :
    With(IF sgn THEN f1 + nf + 2 ELSE f1 + nf + 1, LAMBDA x1 :
    With(IF hasE THEN DigitRun(cs, x1) ELSE 0, LAMBDA nx :
      LET stop == IF hasE THEN x1 + nx ELSE f1 + nf
          ex   == IF hasE THEN CharsToNat(cs, x1, x1 + nx - 1) ELSE 0
          exs  == IF sgn /\ cs[f1 + nf + 1] = "-" THEN -ex ELSE ex
      IN  IF ni + nf = 0 \/ (hasE /\ nx = 0) \/ stop # Len(cs) + 1 THEN NaN
          ELSE DecimalToDouble(
                 s,
                 CharsToBN(SubSeq(cs, 1, ni) \o SubSeq(cs, f1, f1 + nf - 1),
                           1, ni + nf),
                 exs - nf)))))))))

StringToNumber(str) ==
  With(Trim(str), LAMBDA cs :
    LET sgn == cs # <<>> /\ cs[1] \in {"+", "-"}
        s   == IF sgn /\ cs[1] = "-" THEN 1 ELSE 0
    IN  With(IF sgn THEN Tail(cs) ELSE cs, LAMBDA body :
          IF cs = <<>> THEN Zero(0)
          ELSE IF body = <<"I", "n", "f", "i", "n", "i", "t", "y">>
          THEN Inf(s)
          ELSE UnsignedDecimal(body, s)))

(***************************************************************************)
(* JavaScript values.  Objects are a boxed String or Boolean (class        *)
(* "String", "Boolean", field prim), an object literal with its own        *)
(* valueOf method returning ret (class "ValueOf"), an object literal       *)
(* without one (class "Plain"), or an Array (class "Array", field items).  *)
(***************************************************************************)

Undefined == [ty |-> "undefined"]

Null == [ty |-> "null"]

Bool(b) == [ty |-> "boolean", b |-> b]

Str(cs) == [ty |-> "string", cs |-> cs]

BoxedString(cs) == [ty |-> "object", class |-> "String", prim |-> Str(cs)]

BoxedBoolean(b) == [ty |-> "object", class |-> "Boolean", prim |-> Bool(b)]

ValueOfObject(v) == [ty |-> "object", class |-> "ValueOf", ret |-> v]

PlainObject == [ty |-> "object", class |-> "Plain"]

Array(items) == [ty |-> "object", class |-> "Array", items |-> items]

\* typeof v
TypeOf(v) == IF v.ty = "null" THEN "object" ELSE v.ty

\* Array.isArray(v)
IsArray(v) == v.ty = "object" /\ v.class = "Array"

IsBoxed(v) == v.ty = "object" /\ v.class \in {"String", "Boolean"}

\* Object(v).valueOf()
ObjectValueOf(v) ==
  IF v.ty \in {"undefined", "null"} THEN PlainObject
  ELSE IF v.ty # "object" THEN v
  ELSE IF IsBoxed(v) THEN v.prim
  ELSE IF v.class = "ValueOf" THEN v.ret
  ELSE v

ObjectObjectChars ==
  <<"[", "o", "b", "j", "e", "c", "t", " ", "O", "b", "j", "e", "c", "t", "]">>

\* ToString(v); an Array joins the strings of its elements with commas
RECURSIVE ToStringJS(_)
RECURSIVE JoinItems(_, _)
JoinItems(items, i) ==
  IF i > Len(items) THEN <<>>
  ELSE (IF i > 1 THEN <<",">> ELSE <<>>)
       \o (IF items[i].ty \in {"undefined", "null"} THEN <<>>
           ELSE ToStringJS(items[i]))
       \o JoinItems(items, i + 1)

ToStringJS(v) ==
  CASE v.ty = "undefined" -> <<"u", "n", "d", "e", "f", "i", "n", "e", "d">>
    [] v.ty = "null"      -> <<"n", "u", "l", "l">>
    [] v.ty = "boolean"   -> IF v.b THEN <<"t", "r", "u", "e">>
                             ELSE <<"f", "a", "l", "s", "e">>
    [] v.ty = "number"    -> NumberToString(v)
    [] v.ty = "string"    -> v.cs
    [] v.ty = "object"    ->
         IF IsBoxed(v) THEN ToStringJS(v.prim)
         ELSE IF v.class = "Array" THEN JoinItems(v.items, 1)
         ELSE ObjectObjectChars

\* ToNumber(v): an object converts through valueOf() when that yields a
\* primitive and through toString() otherwise
RECURSIVE ToNumberJS(_)
ToNumberJS(v) ==
  CASE v.ty = "undefined" -> NaN
    [] v.ty = "null"      -> Zero(0)
    [] v.ty = "boolean"   -> IF v.b THEN FromNat(1) ELSE Zero(0)
    [] v.ty = "number"    -> v
    [] v.ty = "object" /\ IsBoxed(v) -> ToNumberJS(v.prim)
    [] v.ty = "object" /\ ~IsBoxed(v)
         /\ v.class = "ValueOf" /\ v.ret.ty # "object" -> ToNumberJS(v.ret)
    [] OTHER -> StringToNumber(IF v.ty = "string" THEN v.cs
                               ELSE ToStringJS(v))

\* cs.replace(/[,]/g, '')
RemoveCommas(cs) == SelectSeq(cs, LAMBDA c : c # ",")

\* /[\.]/.test(cs)
HasDot(cs) == \E i \in 1..Len(cs) : cs[i] = "."

\* the number of characters of cs from position i up to the next "." (to the
\* end, if none)
BeforeDot(cs, i) ==
  (CHOOSE j \in i..(Len(cs) + 1) :
     /\ j = Len(cs) + 1 \/ cs[j] = "."
     /\ \A k \in i..(j - 1) : cs[k] # ".") - i

\* cs.split('.')[1].length.  For cs without a "." the split has no second
\* piece, and the read of the length of undefined throws a TypeError: -1.
SplitDotSecondLength(cs) ==
  IF HasDot(cs) THEN BeforeDot(cs, BeforeDot(cs, 1) + 2) ELSE -1

(***************************************************************************)
(* The helpers of safe-math.js                                             *)
(***************************************************************************)

InvalidTexts ==
  { <<"N", "a", "N">>, <<"n", "u", "l", "l">>,
    <<"u", "n", "d", "e", "f", "i", "n", "e", "d">>, <<>> }

\* a variant of isNumeric whose reInvalid lacks the NaN alternative
isNumericButNaN(a) ==
  LET v == IF TypeOf(a) = "string" THEN Str(Trim(RemoveCommas(a.cs))) ELSE a
  IN  ToStringJS(v) \notin (InvalidTexts \ {<<"N", "a", "N">>})

\* a variant of isNumeric that does not trim the string
isNumericUntrimmed(a) ==
  LET v == IF TypeOf(a) = "string" THEN Str(RemoveCommas(a.cs)) ELSE a
  IN  ToStringJS(v) \notin InvalidTexts

isNumeric(a) ==
  LET v == IF TypeOf(a) = "string" THEN Str(Trim(RemoveCommas(a.cs))) ELSE a
  IN  ToStringJS(v) \notin InvalidTexts

\* a variant of getValues that takes an array first argument for a member
getValuesOfArguments(values) == SelectSeq(values, isNumeric)

getValues(values) ==
  LET series == IF values # <<>> /\ IsArray(values[1])
                THEN values[1].items
                ELSE values
  IN  SelectSeq(series, isNumeric)

\* a variant of ExpandOperand that leaves the commas in a string
ExpandOperandWithCommas(x) ==
  LET v == ObjectValueOf(x)
  IN  IF TypeOf(v) = "string" THEN StringToNumber(v.cs) ELSE v

\* the operand of expand after Object(x).valueOf() and the conversion of a
\* string to a number
ExpandOperand(x) ==
  LET v == ObjectValueOf(x)
  IN  IF TypeOf(v) = "string" THEN StringToNumber(RemoveCommas(v.cs)) ELSE v

\* a variant of MantissaLength without the test of reDecimal
MantissaLengthUntested(x) == SplitDotSecondLength(ToStringJS(x))

\* reDecimal.test(x) && x.toString().split('.')[1].length; the false of a
\* failed test is the 0 that the comparison and Math.pow make of it
MantissaLength(x) ==
  LET cs == ToStringJS(x)
  IN  IF HasDot(cs) THEN SplitDotSecondLength(cs) ELSE 0

\* An abrupt completion: the TypeError of a property read on undefined
Thrown == [ty |-> "thrown", error |-> "TypeError"]

expand(x, y) ==
  \* x and y after valueOf() and the conversion of strings
  With(SubSeq([i \in 1..2 |-> ExpandOperand(<<x, y>>[i])], 1, 2), LAMBDA v :
  \* a and b
  With(SubSeq([i \in 1..2 |-> MantissaLength(v[i])], 1, 2), LAMBDA ab :
    IF ab[1] < 0 \/ ab[2] < 0 THEN Thrown
    ELSE
  With(Pow10(IF ab[1] > ab[2] THEN ab[1] ELSE ab[2]), LAMBDA d :
  With(SubSeq([i \in 1..2 |-> FMul(ToNumberJS(v[i]), d)], 1, 2), LAMBDA lr :
    [left |-> lr[1], right |-> lr[2], exponent |-> d]))))

\* values.reduce(fn, seed), from element i on; a step that throws ends it
RECURSIVE Reduce(_, _, _, _)
Reduce(fn(_, _), values, i, acc) ==
  IF Evaluated(acc) /\ (i > Len(values) \/ acc = Thrown) THEN acc
  ELSE Reduce(fn, values, i + 1, fn(acc, values[i]))

(***************************************************************************)
(* The operations                                                          *)
(***************************************************************************)

addStep(augend, addend) ==
  With(expand(augend, addend), LAMBDA e :
    IF e = Thrown THEN Thrown
    ELSE FDiv(FAdd(e.left, e.right), e.exponent))

add(values) == Reduce(addStep, getValues(values), 1, Zero(0))

minusStep(minuend, subtrahend) ==
  With(expand(minuend, subtrahend), LAMBDA e :
    IF e = Thrown THEN Thrown
    ELSE FDiv(FSub(e.left, e.right), e.exponent))

\* a variant of minus that folds from the fixed seed 0
minusFromZero(values) == Reduce(minusStep, getValues(values), 1, Zero(0))

\* numbers.shift() of an empty array is undefined
minus(values) ==
  LET numbers == getValues(values)
      first   == IF numbers = <<>> THEN Undefined ELSE Head(numbers)
  IN  Reduce(minusStep, numbers, 2, first)

multiplyStep(multiplicand, multiplier) ==
  With(expand(multiplicand, multiplier), LAMBDA e :
    IF e = Thrown THEN Thrown
    ELSE FDiv(FMul(e.left, e.right), FMul(e.exponent, e.exponent)))

multiply(values) == Reduce(multiplyStep, getValues(values), 1, FromNat(1))

\* a variant of divideStep that returns the plain quotient
divideStepPlain(dividend, divisor) ==
  With(expand(dividend, divisor), LAMBDA e :
    IF e = Thrown THEN Thrown
    ELSE FDiv(e.left, e.right))

divideStep(dividend, divisor) ==
  With(expand(dividend, divisor), LAMBDA e :
    IF e = Thrown THEN Thrown
    ELSE FDiv(FDiv(e.left, e.right), e.exponent))

divide(values) ==
  LET numbers == getValues(values)
      first   == IF numbers = <<>> THEN Undefined ELSE Head(numbers)
  IN  Reduce(divideStep, numbers, 2, first)

\* mean's reducer on the pair <<size, sum>>
meanStep(acc, next) ==
  With(expand(next, Undefined), LAMBDA e :
    IF e = Thrown THEN Thrown
    ELSE IF ~IsNaN(e.left)
    THEN With(add(<<acc.sum, next>>), LAMBDA sum :
           IF sum = Thrown THEN Thrown
           ELSE [size |-> acc.size + 1, sum |-> sum])
    ELSE acc)

mean(values) ==
  With(Reduce(meanStep, getValues(values), 1, [size |-> 0, sum |-> Zero(0)]),
       LAMBDA r :
         IF r = Thrown THEN Thrown
         ELSE IF r.size > 0 THEN FDiv(r.sum, FromNat(r.size)) ELSE Zero(0))

(***************************************************************************)
(* The relational comparison a < b of two values, as the comparator of     *)
(* ascending applies it to the members of a series.                        *)
(***************************************************************************)

\* the characters of the strings of the model, in the order of their code
\* units
Ascii ==
  <<"\t", "\n", " ", "!", "#", "$", "%", "&", "'", "(", ")", "*", "+",
    ",", "-", ".", "/", "0", "1", "2", "3", "4", "5", "6", "7", "8", "9", ":",
    ";", "<", "=", ">", "?", "@", "A", "B", "C", "D", "E", "F", "G", "H", "I",
    "J", "K", "L", "M", "N", "O", "P", "Q", "R", "S", "T", "U", "V", "W", "X",
    "Y", "Z", "[", "]", "^", "_", "a", "b", "c", "d", "e", "f",
    "g", "h", "i", "j", "k", "l", "m", "n", "o", "p", "q", "r", "s", "t", "u",
    "v", "w", "x", "y", "z", "{", "|", "}", "~">>

\* the rank of the code unit of the character c
CharCode(c) == CHOOSE i \in 1..Len(Ascii) : Ascii[i] = c

\* a < b on strings: by the code units, a proper prefix first
StringLess(a, b) ==
  LET n == Min(Len(a), Len(b))
      k == CHOOSE j \in 1..(n + 1) :
             /\ j = n + 1 \/ a[j] # b[j]
             /\ \A i \in 1..(j - 1) : a[i] = b[i]
  IN  IF k > n THEN Len(a) < Len(b) ELSE CharCode(a[k]) < CharCode(b[k])

\* ToPrimitive(v) with hint number: valueOf() when it yields a primitive,
\* toString() otherwise
ToPrimitive(v) ==
  IF v.ty # "object" THEN v
  ELSE IF IsBoxed(v) THEN v.prim
  ELSE IF v.class = "ValueOf" /\ v.ret.ty # "object" THEN v.ret
  ELSE Str(ToStringJS(v))

\* a < b: two strings compare as strings, all else as numbers, and no
\* comparison with NaN is true
LessThan(a, b) ==
  With(<<ToPrimitive(a), ToPrimitive(b)>>, LAMBDA p :
    IF p[1].ty = "string" /\ p[2].ty = "string"
    THEN StringLess(p[1].cs, p[2].cs)
    ELSE With(SubSeq([i \in 1..2 |-> ToNumberJS(p[i])], 1, 2), LAMBDA n :
           ~IsNaN(n[1]) /\ ~IsNaN(n[2]) /\ FCmp(n[1], n[2]) < 0))

\* a variant of the comparator for the descending order
compareDescending(a, b) ==
  IF LessThan(a, b) THEN 1 ELSE IF LessThan(b, a) THEN -1 ELSE 0

\* the comparator that ascending passes to sort
compare(a, b) ==
  IF LessThan(a, b) THEN -1 ELSE IF LessThan(b, a) THEN 1 ELSE 0

\* the orders of n elements: order[i] is the position in the array of the
\* element that comes i-th
Orders(n) == {p \in [1..n -> 1..n] : \A i, j \in 1..n : p[i] = p[j] => i = j}

\* c[i][j] = compare(values[i], values[j]) is a consistent comparator for
\* the values: equality under it is an equivalence and the classes are
\* totally ordered
Consistent(c, n) ==
  \A i, j, k \in 1..n :
    /\ c[i][i] = 0
    /\ c[i][j] = 0 => c[j][i] = 0
    /\ c[i][j] = 0 /\ c[j][k] = 0 => c[i][k] = 0
    /\ c[i][j] < 0 /\ c[j][k] < 0 => c[i][k] < 0
    /\ c[i][j] > 0 /\ c[j][k] > 0 => c[i][k] > 0

\* The arrays that values.sort(compare) can leave.  Under a consistent
\* comparator the sort is the stable one; under any other the order is
\* implementation-defined, and every order of the elements is possible.
ascending(values) ==
  LET n == Len(values)
  IN  With(SubSeq([i \in 1..n |->
                     SubSeq([j \in 1..n |-> compare(values[i], values[j])],
                            1, n)], 1, n), LAMBDA c :
        LET Stable(p) == \A i, j \in 1..n :
                           i < j => \/ c[p[i]][p[j]] < 0
                                    \/ c[p[i]][p[j]] = 0 /\ p[i] < p[j]
        IN  { SubSeq([i \in 1..n |-> values[p[i]]], 1, n) :
                p \in {q \in Orders(n) : ~Consistent(c, n) \/ Stable(q)} })

\* the getValues of lines 640-656, which sorts the values it keeps with the
\* comparator of ascending: the arrays it can return
getValuesSorted(values) == ascending(getValues(values))

\* The values median can return: one for each array the sort can leave.
median(values) ==
  With(getValues(values), LAMBDA numbers :
    IF numbers = <<>> THEN {Zero(0)}
    ELSE { ToNumberJS(sorted[(Len(sorted) \div 2) + 1]) :
             sorted \in ascending(numbers) })

(***************************************************************************)
(* mode.  The map is the sequence of its properties <<key, count>> in the  *)
(* order of their creation; a number used as a property key is the string  *)
(* of the number.                                                          *)
(***************************************************************************)

\* a variant of modeStep that sets every count to 1
modeStepUncounted(acc, value) ==
  With(NumberToString(ToNumberJS(value)), LAMBDA key :
    [map  |-> IF \E i \in 1..Len(acc.map) : acc.map[i].key = key
              THEN acc.map
              ELSE Append(acc.map, [key |-> key, count |-> 1]),
     most |-> 1])

\* (value in map) && (map[value]++) || (map[value] = 1), and the new most
modeStep(acc, value) ==
  IF ~isNumeric(value) THEN acc
  ELSE
  With(NumberToString(ToNumberJS(value)), LAMBDA key :
    LET n   == Len(acc.map)
        has == \E i \in 1..n : acc.map[i].key = key
        map == IF has
               THEN SubSeq([i \in 1..n |->
                              IF acc.map[i].key = key
                              THEN [key |-> key, count |-> acc.map[i].count + 1]
                              ELSE acc.map[i]], 1, n)
               ELSE Append(acc.map, [key |-> key, count |-> 1])
        now == (CHOOSE en \in {map[i] : i \in 1..Len(map)} : en.key = key).count
    IN  [map |-> map, most |-> IF now > acc.most THEN now ELSE acc.most])

\* the greatest array index, 2^32 - 2
MaxArrayIndex == <<"4", "2", "9", "4", "9", "6", "7", "2", "9", "4">>

\* key is an integer index: the canonical decimal string of a natural up to
\* 2^32 - 2
IsArrayIndex(key) ==
  /\ key # <<>>
  /\ \A i \in 1..Len(key) : IsDigit(key[i])
  /\ Len(key) = 1 \/ key[1] # "0"
  /\ \/ Len(key) < Len(MaxArrayIndex)
     \/ Len(key) = Len(MaxArrayIndex) /\ CmpDigits(key, MaxArrayIndex) <= 0

\* Object.keys(map): the integer indices in ascending numeric order, then
\* the other keys in the order of their creation
ObjectKeys(map) ==
  LET n   == Len(map)
      idx == {i \in 1..n : IsArrayIndex(map[i].key)}
      Before(i, j) ==
        \/ Len(map[i].key) < Len(map[j].key)
        \/ /\ Len(map[i].key) = Len(map[j].key)
           /\ CmpDigits(map[i].key, map[j].key) < 0
      rank(i) == IF i \in idx
                 THEN 1 + Cardinality({j \in idx : Before(j, i)})
                 ELSE Cardinality(idx)
                      + Cardinality({j \in 1..i : j \notin idx})
  IN  SubSeq([r \in 1..n |-> map[CHOOSE i \in 1..n : rank(i) = r]], 1, n)

mode(values) ==
  With(Reduce(modeStep, getValues(values), 1, [map |-> <<>>, most |-> 0]),
       LAMBDA t :
         LET modes == SelectSeq(ObjectKeys(t.map),
                                LAMBDA en : en.count = t.most)
         IN  Array(SubSeq([i \in 1..Len(modes) |->
                             StringToNumber(modes[i].key)], 1, Len(modes))))

(***************************************************************************)
(* range                                                                   *)
(***************************************************************************)

\* a variant of rangeStep that leaves low alone
rangeStepHigh(acc, value) ==
  With(ToNumberJS(value), LAMBDA v :
    [high |-> IF ~IsNaN(v) /\ FCmp(v, acc.high) > 0 THEN v ELSE acc.high,
     low  |-> acc.low])

\* value > high && (high = value); value < low && (low = value)
rangeStep(acc, value) ==
  IF ~isNumeric(value) THEN acc
  ELSE With(ToNumberJS(value), LAMBDA v :
         [high |-> IF ~IsNaN(v) /\ FCmp(v, acc.high) > 0 THEN v ELSE acc.high,
          low  |-> IF ~IsNaN(v) /\ FCmp(v, acc.low) < 0 THEN v ELSE acc.low])

range(values) ==
  With(getValues(values), LAMBDA numbers :
    IF Len(numbers) < 2 THEN Zero(0)
    ELSE With(Reduce(rangeStep, numbers, 1, [high |-> Inf(1), low |-> Inf(0)]),
              LAMBDA r : add(<<r.high, FNeg(r.low)>>)))

(***************************************************************************)
(* The conversions                                                         *)
(***************************************************************************)

\* ToBoolean(v)
ToBoolean(v) ==
  CASE v.ty \in {"undefined", "null"} -> FALSE
    [] v.ty = "boolean" -> v.b
    [] v.ty = "number"  -> ~IsNaN(v) /\ ~IsZero(v)
    [] v.ty = "string"  -> v.cs # <<>>
    [] OTHER -> TRUE

\* a variant of percent without the test of a falsy number
percentOfFalsy(value) ==
  With(ObjectValueOf(value), LAMBDA number :
    IF ~isNumeric(value) \/ ~isNumeric(number) THEN value
    ELSE divide(<<number, FromNat(100)>>))

percent(value) ==
  With(ObjectValueOf(value), LAMBDA number :
    IF ~isNumeric(value) \/ ~isNumeric(number) \/ ~ToBoolean(number)
    THEN value
    ELSE divide(<<number, FromNat(100)>>))

\* Math.pow(number, -1)
reciprocal(value) ==
  With(ObjectValueOf(value), LAMBDA number :
    IF ~isNumeric(value) \/ ~isNumeric(number) THEN value
    ELSE FDiv(FromNat(1), ToNumberJS(number)))

square(value) ==
  With(ObjectValueOf(value), LAMBDA number :
    IF ~isNumeric(value) \/ ~isNumeric(number) THEN value
    ELSE multiply(<<number, number>>))

\* the integer square root of a natural n, by Newton's iteration downwards
\* from x, x * x >= n
RECURSIVE BNSqrtRec(_, _)
BNSqrtRec(n, x) ==
  With(BNShr(BNAdd(x, BNDivMod(n, x)[1]), 1), LAMBDA y :
    IF BNCmp(y, x) >= 0 THEN x ELSE BNSqrtRec(n, y))

BNSqrt(n) ==
  IF n = <<>> THEN <<>>
  ELSE BNSqrtRec(n, BNShl(<<1>>, (BNBitLen(n) + 1) \div 2))

\* Math.sqrt(x): the binary64 value nearest to the square root
FSqrt(x) ==
  CASE IsNaN(x) -> NaN
    [] ~IsNaN(x) /\ IsZero(x) -> x
    [] ~IsNaN(x) /\ ~IsZero(x) /\ x.s = 1 -> NaN
    [] ~IsNaN(x) /\ ~IsZero(x) /\ x.s = 0 /\ IsInf(x) -> x
    [] OTHER ->
         LET k0 == Max(0, 2 * MantissaBits + 4 - BNBitLen(x.m))
             k  == IF (x.e - k0) % 2 = 0 THEN k0 ELSE k0 + 1
         IN  With(BNShl(x.m, k), LAMBDA sq :
               With(BNSqrt(sq), LAMBDA r :
                 RoundToDouble(0, r, (x.e - k) \div 2,
                               BNCmp(BNMul(r, r), sq) # 0)))

\* new Error(message)
Error(message) == [ty |-> "object", class |-> "Error", message |-> message]

InvalidInput ==
  <<"I", "n", "v", "a", "l", "i", "d", " ", "I", "n", "p", "u", "t", ",", " ">>

\* a variant of sqrt without the test of the sign
sqrtOfNegative(value) ==
  With(ObjectValueOf(value), LAMBDA number :
    IF ~isNumeric(value) \/ ~isNumeric(number)
    THEN Error(InvalidInput \o ToStringJS(value))
    ELSE FSqrt(ToNumberJS(number)))

sqrt(value) ==
  With(ObjectValueOf(value), LAMBDA number :
    IF ~isNumeric(value) \/ ~isNumeric(number) \/ LessThan(number, Zero(0))
    THEN Error(InvalidInput \o ToStringJS(value))
    ELSE FSqrt(ToNumberJS(number)))

\* the names the module exports
Exports ==
  { "add", "minus", "multiply", "divide", "mean", "median", "mode", "range",
    "percent", "reciprocal", "square", "sqrt" }

\* the abrupt completion of the import of a name the module does not export
NotExported == [ty |-> "thrown", error |-> "SyntaxError"]

(***************************************************************************)
(* The calls.  args is the argument list the caller supplies, called the   *)
(* function applied to it ("none" before the call), result what the call   *)
(* returned.                                                               *)
(***************************************************************************)

VARIABLES args, called, result, log

vars == <<args, called, result, log>>

\* the number of the decimal literal n * 10^p
Num(n, p) == DecimalToDouble(IF n < 0 THEN 1 ELSE 0,
                             BNFromNat(IF n < 0 THEN -n ELSE n), p)

(***************************************************************************)
(* The argument lists of the calls.                                        *)
(***************************************************************************)

\* the length of the longest series
MaxLen == 3

\* the greatest number of hundredths of a decimal operand, and the greatest
\* number of hundredths below zero
MaxCents == 7

MaxDebit == 1

\* the elements of base at the positions I, in their order
Pick(base, I) ==
  SubSeq([j \in 1..Cardinality(I) |->
            base[CHOOSE i \in I : Cardinality({k \in I : k < i}) = j - 1]],
         1, Cardinality(I))

\* the subsequences of base of at most n elements
Subsequences(base, n) ==
  { Pick(base, I) : I \in {J \in SUBSET (1..Len(base)) : Cardinality(J) <= n} }

\* the sequences of at most n elements of S
SeqsUpTo(S, n) == UNION { [1..k -> S] : k \in 0..n }

\* the series of the tests of the non-numeric values:
\* NaN, 1, null, 2, undefined, 3, '', 4
Mixed ==
  <<NaN, Num(1, 0), Null, Num(2, 0), Undefined, Num(3, 0), Str(<<>>),
    Num(4, 0)>>

\* series of numeric and non-numeric values, as arguments and as one array,
\* alone, before a further argument and inside an array
Series ==
  LET subs == Subsequences(Mixed, MaxLen)
      few  == Subsequences(SubSeq(Mixed, 1, 4), MaxLen)
  IN  subs
      \cup { <<Array(v)>> : v \in few }
      \cup { <<Array(v), Num(3, 0)>> : v \in few }
      \cup { <<Array(<<Array(v), Num(3, 0)>>)>> : v \in few }

\* pairs of decimals of two places: a / 100 and b / 100
Cents(n) == Num(n, -2)

CentPairs ==
  { <<Cents(a), Cents(b)>> : a \in 1..MaxCents, b \in (-MaxDebit)..MaxCents }

\* series of native numbers in every order, with repetitions
Natives == {Num(-3, 0), Num(25, -2), Num(10, 0)}

NativeSeries ==
  { SubSeq(v, 1, Len(v)) : v \in SeqsUpTo(Natives, MaxLen) }
    \cup { <<Num(402, -1), Num(-4, -2), Num(22, -2)>>,
           <<Inf(1), Zero(0), Inf(0)>>, <<Zero(1), Zero(0)>> }

\* the forms of a number: the value, and the number it stands for
Forms ==
  { <<Num(1000, 0), Num(1000, 0)>>,
    <<Str(<<"1", ",", "0", "0", "0">>), Num(1000, 0)>>,
    <<Bool(TRUE), Num(1, 0)>>,
    <<BoxedBoolean(TRUE), Num(1, 0)>>,
    <<Bool(FALSE), Zero(0)>>,
    <<Str(<<"0", ".", "1">>), Num(1, -1)>>,
    <<BoxedString(<<"0", ".", "2">>), Num(2, -1)>>,
    <<ValueOfObject(Num(3, -1)), Num(3, -1)>>,
    <<ValueOfObject(Num(10, 0)), Num(10, 0)>>,
    <<BoxedString(<<"9">>), Num(9, 0)>>,
    <<Str(<<"1", "0">>), Num(10, 0)>>,
    <<Str(<<"9">>), Num(9, 0)>> }

\* values of every kind
Values ==
  { Undefined, Null, NaN, Str(<<>>), Str(<<" ">>), Zero(0), Zero(1),
    Str(<<"0">>), BoxedString(<<"0">>), BoxedBoolean(FALSE),
    ValueOfObject(Zero(0)), Num(5, -1), Num(-1, 0), Num(4, 0), Num(2, 0),
    Str(<<"4">>), Str(<<"-", "4">>), Str(<<"-", "1", "0">>),
    Str(<<"a", "b", "c">>), Inf(0), Inf(1), PlainObject, Array(<<>>),
    Array(<<Num(5, 0)>>), Array(<<Num(1, 0), Num(5, -1)>>),
    ValueOfObject(Num(5, 0)), ValueOfObject(Null), ValueOfObject(PlainObject),
    ValueOfObject(Str(<<"1", ".", "5">>)), Num(11, -1) }

FormSeries ==
  { <<f[1], g[1]>> : f, g \in Forms }
    \cup { <<v>> : v \in Values \cup {f[1] : f \in Forms} }
    \cup { <<v, Num(15, -1)>> : v \in Values }
    \cup { <<Str(<<"1", "0">>), Str(<<"9">>), Str(<<"1", "0", "0">>)>>,
           <<Array(<<ValueOfObject(Num(10, 0)), BoxedString(<<"9">>),
                     Bool(TRUE)>>)>>,
           <<Array(<<ValueOfObject(Num(10, 0)), BoxedString(<<"1", "0">>),
                     Bool(TRUE)>>)>> }

InitOf(S) ==
  /\ args \in S
  /\ called = "none"
  /\ result = Undefined
  /\ log = <<>>

Init == InitOf(Series)

InitDecimals == InitOf(CentPairs)

InitNatives == InitOf(NativeSeries)

InitForms == InitOf(FormSeries)

(***************************************************************************)
(* The arrays of a call.  caller is the array that the caller passed as    *)
(* the first argument (empty if it passed none), rest the array of the     *)
(* rest parameter ...values, filtered the array that filter returns;       *)
(* numbers names the one of them that the function holds as its numbers.   *)
(***************************************************************************)

Arrays(a) ==
  [caller   |-> IF a # <<>> /\ IsArray(a[1]) THEN a[1].items ELSE <<>>,
   rest     |-> a,
   filtered |-> <<>>,
   numbers  |-> "rest"]

\* the array that getValues filters: values = values[0] is the caller's
Source(f) == IF f.rest # <<>> /\ IsArray(f.rest[1]) THEN "caller" ELSE "rest"

\* a variant of getValuesOn that removes the other members from the array
\* itself and returns it
getValuesInPlaceOn(f) ==
  [f EXCEPT ![Source(f)] = SelectSeq(f[Source(f)], isNumeric),
            !.numbers = Source(f)]

\* getValues: values.filter(isNumeric) returns a new array
getValuesOn(f) ==
  [f EXCEPT !.filtered = SelectSeq(f[Source(f)], isNumeric),
            !.numbers = "filtered"]

\* numbers.shift()
shiftOn(f) == [f EXCEPT ![f.numbers] = IF @ = <<>> THEN @ ELSE Tail(@)]

\* values.sort(...) of ascending, in place: the arrays it can leave
sortOn(f) == { [f EXCEPT ![f.numbers] = sorted] : sorted \in ascending(f[f.numbers]) }

\* the arguments a as the call of name can leave them
Effects(name, a) ==
  With(Arrays(a), LAMBDA f :
  With(IF name \in {"percent", "reciprocal", "square", "sqrt", "power",
                    "isNumeric", "expand"}
       THEN f ELSE getValuesOn(f), LAMBDA g :
  With(CASE name \in {"minus", "divide"} -> {shiftOn(g)}
         [] name \in {"median", "getValuesSorted"} -> sortOn(g)
         [] OTHER -> {g}, LAMBDA frames :
    { IF a # <<>> /\ IsArray(a[1]) THEN <<Array(h.caller)>> \o Tail(a)
      ELSE a : h \in frames })))

\* a call of name that returns value: the log keeps the arguments as they
\* were given
Call(name, value) ==
  /\ called = "none"
  /\ called' = name
  /\ result' = value
  /\ args' \in Effects(name, args)
  /\ log' = Append(log, [name |-> name, given |-> args, result |-> result'])

\* the i-th argument of the call; undefined if there is none
Arg(i) == IF i <= Len(args) THEN args[i] ELSE Undefined

Add == Call("add", add(args))

Minus == Call("minus", minus(args))

Multiply == Call("multiply", multiply(args))

Divide == Call("divide", divide(args))

Mean == Call("mean", mean(args))

Median == \E r \in median(args) : Call("median", r)

Mode == Call("mode", mode(args))

Range == Call("range", range(args))

Percent == Call("percent", percent(Arg(1)))

Reciprocal == Call("reciprocal", reciprocal(Arg(1)))

Square == Call("square", square(Arg(1)))

Sqrt == Call("sqrt", sqrt(Arg(1)))

\* import { power } from "../safe-math.js", and a call of it
Power == "power" \notin Exports /\ Call("power", NotExported)

Next ==
  \/ Add \/ Minus \/ Multiply \/ Divide
  \/ Mean \/ Median \/ Mode \/ Range
  \/ Percent \/ Reciprocal \/ Square \/ Sqrt
  \/ Power

Spec == Init /\ [][Next]_vars

SpecDecimals == InitDecimals /\ [][Next]_vars

SpecNatives == InitNatives /\ [][Next]_vars

SpecForms == InitForms /\ [][Next]_vars

\* the operands of the tests of divide: numbers, strings, String objects and
\* objects with valueOf
Decimals == {Num(1, -1), Num(15, -2), Num(2, -1), Num(10, 0), Num(-5, -3)}

QuotientPairs ==
  { <<x, y>> : x, y \in Decimals }
    \cup { <<Str(<<"0", ".", "1">>), Str(<<"0", ".", "2">>)>>,
           <<BoxedString(<<"0", ".", "1">>), BoxedString(<<"0", ".", "2">>)>>,
           <<ValueOfObject(Num(1, -1)), ValueOfObject(Num(2, -1))>>,
           <<Array(<<Num(15, -2), Num(1, -1)>>)>> }

InitQuotients == InitOf(QuotientPairs)

SpecQuotients == InitQuotients /\ [][Next]_vars

(***************************************************************************)
(* Calls one after the other on the same arguments.                        *)
(***************************************************************************)

\* the number of calls
MaxCalls == 3

\* arrays of the caller, neither in order nor of numbers alone
CallArgs ==
  { <<Array(<<Num(3, 0), Num(1, 0), Num(2, 0)>>)>>,
    <<Array(<<Str(<<>>), Num(2, 0), Num(5, -1)>>)>> }

InitCalls == InitOf(CallArgs)

\* the caller takes the result and is free to call again
Return ==
  /\ called # "none"
  /\ Len(log) < MaxCalls
  /\ called' = "none"
  /\ result' = Undefined
  /\ UNCHANGED <<args, log>>

\* the functions that take the array through getValues, those that shift
\* and sort it among them
NextCalls == Add \/ Minus \/ Divide \/ Mean \/ Median \/ Mode \/ Return

SpecCalls == InitCalls /\ [][NextCalls]_vars

(***************************************************************************)
(* The helpers, called on their own.                                       *)
(***************************************************************************)

\* strings around the texts that isNumeric rejects
Texts ==
  { Str(<<"N", "a", "N">>), Str(<<"n", "u", "l", "l">>),
    Str(<<"u", "n", "d", "e", "f", "i", "n", "e", "d">>),
    Str(<<" ", "N", "a", "N", "\t">>), Str(<<"N", ",", "a", "N">>),
    Str(<<"n", "u", "l", "l", "s">>), Str(<<",">>), Str(<<" ", ",", " ">>),
    Str(<<"\t", "\n">>), Str(<<"1", ",", "0", "0", "0">>),
    Str(<<" ", "1", ",", "0", "0", "0", " ">>), Str(<<"0">>),
    BoxedString(<<>>), BoxedString(<<" ">>), Bool(TRUE), Bool(FALSE),
    Array(<<Null>>), Array(<<NaN>>), Array(<<Num(1, 0), Num(2, 0)>>),
    ValueOfObject(NaN) }

\* pairs of operands of expand
OperandPairs ==
  { <<v, Num(15, -1)>> : v \in Values }
    \cup { <<Cents(a), Cents(b)>> : a \in {1, 7, 10, 100}, b \in {1, 5} }
    \cup { <<Num(123, -2), Num(1234, -3)>>, <<Num(1, -7), Num(1, 0)>>,
           <<Num(1, 0), Str(<<>>)>>, <<Num(1, 0), Str(<<" ">>)>>,
           <<Str(<<"1", ",", "0", "0", "0", ".", "5">>), Num(25, -2)>> }

HelperArgs ==
  Series
    \cup { <<v>> : v \in Values \cup Texts }
    \cup OperandPairs
    \cup { <<Num(2, 0), Num(1, 0)>>, <<Num(3, 0), Str(<<>>), Num(1, 0)>>,
           <<Array(<<Num(3, 0), Num(1, 0), Num(2, 0)>>)>>,
           <<PlainObject, Num(1, 0)>> }

InitHelpers == InitOf(HelperArgs)

IsNumeric == Call("isNumeric", Bool(isNumeric(Arg(1))))

GetValues == Call("getValues", Array(getValues(args)))

\* the getValues of lines 640-656
GetValuesSorted ==
  \E sorted \in getValuesSorted(args) : Call("getValuesSorted", Array(sorted))

\* expand(x, y); a missing argument is undefined
Expand == Call("expand", expand(Arg(1), Arg(2)))

NextHelpers == IsNumeric \/ GetValues \/ GetValuesSorted \/ Expand

SpecHelpers == InitHelpers /\ [][NextHelpers]_vars


(***************************************************************************)
(* The properties                                                          *)
(***************************************************************************)

\* the series of a call: the first argument when it is an array, the
\* arguments otherwise
SeriesOf(a) == IF a # <<>> /\ IsArray(a[1]) THEN a[1].items ELSE a

\* the values the library calls non-numeric
NonNumeric == {NaN, Null, Undefined, Str(<<>>)}

\* the result of the series function name on the arguments a; ret is a
\* result of the function if it is one of these
Returns(name, a, ret) ==
  CASE name = "add"      -> ret = add(a)
    [] name = "minus"    -> ret = minus(a)
    [] name = "multiply" -> ret = multiply(a)
    [] name = "divide"   -> ret = divide(a)
    [] name = "mean"     -> ret = mean(a)
    [] name = "median"   -> ret \in median(a)
    [] name = "mode"     -> ret = mode(a)
    [] name = "range"    -> ret = range(a)

SeriesFunctions ==
  {"add", "minus", "multiply", "divide", "mean", "median", "mode", "range"}

\* C1: add of the decimals a/100 and b/100 returns the decimal (a + b)/100
\* exactly
SumIsExactDecimal ==
  called = "add" =>
    \A a \in 1..MaxCents, b \in (-MaxDebit)..MaxCents :
      args = <<Cents(a), Cents(b)>> => result = Cents(a + b)

\* C2: add returns what add returns for the series without its non-numeric
\* members (NaN, null, undefined, the empty string)
SumDropsNonNumeric ==
  called = "add" =>
    result = add(<<Array(SelectSeq(SeriesOf(args),
                                   LAMBDA v : v \notin NonNumeric))>>)

SumDropsNonNumericWitness ==
  /\ called = "add"
  /\ args = <<NaN, Num(1, 0), Null>>
  /\ result = Num(1, 0)

\* C3: multiply of the decimals a/100 and b/100 returns the decimal
\* (a * b)/10000 exactly
ProductIsExactDecimal ==
  called = "multiply" =>
    \A a \in 1..MaxCents, b \in (-MaxDebit)..MaxCents :
      args = <<Cents(a), Cents(b)>> => result = Num(a * b, -4)

\* C4: minus of the members x1 = a/100 and x2 = b/100 returns x1 - x2, the
\* decimal (a - b)/100
DifferenceIsLeftFold ==
  called = "minus" =>
    \A a \in 1..MaxCents, b \in (-MaxDebit)..MaxCents :
      args = <<Cents(a), Cents(b)>> => result = Cents(a - b)

\* C5: divide of the decimals a/100 and b/100, b dividing a, returns the
\* quotient a/b exactly
QuotientIsExact ==
  called = "divide" =>
    \A a \in 1..MaxCents, b \in 1..MaxCents :
      args = <<Cents(a), Cents(b)>> /\ a % b = 0 => result = Num(a \div b, 0)

\* C6: for a series without numeric members add returns 0, multiply returns
\* 1, and minus and divide return a number
EmptySeriesGivesIdentity ==
  (\A i \in 1..Len(SeriesOf(args)) : SeriesOf(args)[i] \in NonNumeric) =>
    /\ called = "add" => result = Zero(0)
    /\ called = "multiply" => result = Num(1, 0)
    /\ called \in {"minus", "divide"} => result.ty = "number"

\* C7: minus and divide return the sole numeric member of a series as it is
SoleMemberUnchanged ==
  called \in {"minus", "divide"} =>
    LET numbers == SelectSeq(SeriesOf(args), LAMBDA v : v \notin NonNumeric)
    IN  Len(numbers) = 1 => result = numbers[1]

SoleMemberUnchangedWitness ==
  /\ called = "divide"
  /\ args = <<NaN, Num(2, 0), Undefined>>
  /\ result = Num(2, 0)

\* C8: add, minus, multiply and divide of two members return what they
\* return for the numbers the members stand for
FormsAgree ==
  called \in {"add", "minus", "multiply", "divide"} =>
    \A f, g \in Forms :
      args = <<f[1], g[1]>> => Returns(called, <<f[2], g[2]>>, result)

FormsAgreeWitness ==
  /\ called = "add"
  /\ args = <<Str(<<"1", ",", "0", "0", "0">>), BoxedBoolean(TRUE)>>
  /\ result = Num(1001, 0)

\* C9: a series function applied to an array first argument returns what it
\* returns for the elements of the array as arguments, whatever follows the
\* array
ArrayIsTheSeries ==
  called \in SeriesFunctions /\ args # <<>> /\ IsArray(args[1]) =>
    Returns(called, args[1].items, result)

\* C9, amended: it does so when the first element of the array is not itself
\* an array, and in every case it ignores what follows the array
ArrayOfValuesIsTheSeries ==
  called \in SeriesFunctions /\ args # <<>> /\ IsArray(args[1]) =>
    /\ Returns(called, <<args[1]>>, result)
    /\ args[1].items = <<>> \/ ~IsArray(args[1].items[1]) =>
         Returns(called, args[1].items, result)

ArrayOfValuesIsTheSeriesWitness ==
  /\ called = "add"
  /\ args = <<Array(<<Num(1, 0), Num(2, 0)>>), Num(3, 0)>>
  /\ result = Num(3, 0)

\* C10: mean returns the sum of the qualifying members divided by their
\* count, and 0 when none qualifies
MeanIsSumOverCount ==
  called = "mean" =>
    LET q == SelectSeq(SeriesOf(args),
                       LAMBDA v : isNumeric(v) /\ ~IsNaN(ToNumberJS(v)))
    IN  result = IF q = <<>> THEN Zero(0)
                 ELSE FDiv(add(<<Array(q)>>), FromNat(Len(q)))

\* the numbers of the series v below x, and those not above it
Below(v, x) == Cardinality({i \in 1..Len(v) : FCmp(v[i], x) < 0})

NotAbove(v, x) == Cardinality({i \in 1..Len(v) : FCmp(v[i], x) <= 0})

\* C11: median of a series of n native numbers returns a member of the
\* series, the one at index floor(n/2) of the ascending order: at most
\* floor(n/2) members are below it and more than floor(n/2) are not above it
MedianIsUpperMiddle ==
  called = "median" /\ args # <<>> =>
    /\ \E i \in 1..Len(args) : result = args[i]
    /\ Below(args, result) <= Len(args) \div 2
    /\ NotAbove(args, result) > Len(args) \div 2

MedianIsUpperMiddleWitness ==
  /\ called = "median"
  /\ args = <<Num(10, 0), Num(-3, 0)>>
  /\ result = Num(10, 0)

\* C12: median of two members returns the greater of the numbers they stand
\* for, the one at index 1 of their ascending numeric order
MedianOrdersByNumber ==
  called = "median" =>
    \A f, g \in Forms :
      args = <<f[1], g[1]>> =>
        result = IF FCmp(f[2], g[2]) < 0 THEN g[2] ELSE f[2]

\* x and y are one number, NaN being one
SameNumber(x, y) == (IsNaN(x) /\ IsNaN(y)) \/ FEq(x, y)

ModeHasNoNaN ==
  called = "mode" =>
    \A i \in 1..Len(result.items) : ~IsNaN(result.items[i])

NonNumericPassesThrough ==
  /\ called \in {"percent", "reciprocal", "square"} /\ Arg(1) \in NonNumeric
       => result = Arg(1)
  /\ called = "percent" /\ isNumeric(Arg(1)) /\ IsZero(ToNumberJS(Arg(1)))
       => result = Arg(1)

\* C16, amended: percent returns as it is an argument whose primitive value
\* is the number 0 or false
FalsyPassesThrough ==
  /\ called \in {"percent", "reciprocal", "square"} /\ Arg(1) \in NonNumeric
       => result = Arg(1)
  /\ called = "percent"
       /\ ObjectValueOf(Arg(1)) \in {Zero(0), Zero(1), Bool(FALSE)}
       => result = Arg(1)

FalsyPassesThroughWitness ==
  /\ called = "percent"
  /\ args = <<BoxedBoolean(FALSE)>>
  /\ result = BoxedBoolean(FALSE)

\* C17: percent of the decimal a/100 returns the decimal a/10000
PercentIsHundredth ==
  called = "percent" =>
    \A a \in 1..MaxCents :
      args[1] = Cents(a) => result = Num(a, -4)

\* |x - r * r| is at most what half a unit in the last place of r makes of
\* the square: x lies between the squares of r - ulp/2 and r + ulp/2, for
\* finite x and r above 0
IsRootOf(r, x) ==
  LET u    == r.e - (MantissaBits - BNBitLen(r.m))
      m2   == BNShl(r.m, MantissaBits - BNBitLen(r.m) + 1)
      lo   == BNSub(m2, <<1>>)
      hi   == BNAdd(m2, <<1>>)
      e    == Min(x.e, 2 * u - 2)
      xs   == BNShl(x.m, x.e - e)
  IN  /\ BNCmp(BNShl(BNMul(lo, lo), 2 * u - 2 - e), xs) <= 0
      /\ BNCmp(xs, BNShl(BNMul(hi, hi), 2 * u - 2 - e)) <= 0

NothingThrows == called \in Exports => result.ty # "thrown"

NothingThrowsWitness ==
  /\ called = "mean"
  /\ args = <<ValueOfObject(PlainObject), Num(15, -1)>>
  /\ result.ty = "number"

\* C20: the module provides power: a call of it with a numeric value and the
\* exponent 2 returns what square returns, and with no exponent the value
PowerIsProvided ==
  called = "power" /\ isNumeric(Arg(1)) =>
    /\ "power" \in Exports
    /\ Arg(2) = Num(2, 0) => result = square(Arg(1))
    /\ Arg(2) \in {Undefined, Null, Str(<<>>)} => result = Arg(1)

ContainersAreDropped ==
  called = "getValues" =>
    \A i \in 1..Len(result.items) :
      LET member == result.items[i]
      IN  ~(member = PlainObject \/ (IsArray(member) /\ Len(member.items) > 1))

\* C23: getValues returns the numeric members of the series in their
\* original order, none added, repeated or altered, and getValues of what
\* it returned is what it returned.
GetValuesKeepsTheOrder ==
  called \in {"getValues", "getValuesSorted"} =>
    LET series == SeriesOf(args)
        kept   == {i \in 1..Len(series) : isNumeric(series[i])}
    IN  /\ result.items = Pick(series, kept)
        /\ IF called = "getValues"
           THEN getValues(<<result>>) = result.items
           ELSE result.items \in getValuesSorted(<<result>>)

\* the number x is a whole number
IsInteger(x) == x.k = "fin" /\ (x.m = <<>> \/ x.e >= 0)

\* the number of digits after the point in the decimal text of the number x
FractionalDigits(x) ==
  LET cs   == NumberToString(x)
      dots == {i \in 1..Len(cs) : cs[i] = "."}
  IN  IF dots = {} THEN 0 ELSE Len(cs) - (CHOOSE i \in dots : TRUE)

\* C24: for numeric operands x and y, expand(x, y) has for exponent the
\* power of ten of the greater number of fractional digits of the two (1 if
\* neither has any) and for left and right the whole numbers x * exponent
\* and y * exponent.
ExpandGivesWholeNumbers ==
  (/\ called = "expand"
   /\ Len(args) = 2
   /\ \A i \in 1..2 : args[i].ty = "number" /\ args[i].k = "fin") =>
    LET digits == Max(FractionalDigits(args[1]), FractionalDigits(args[2]))
    IN  /\ result.exponent = Pow10(digits)
        /\ result.left = FMul(args[1], result.exponent)
        /\ result.right = FMul(args[2], result.exponent)
        /\ IsInteger(result.left)
        /\ IsInteger(result.right)

\* the operands that are not numbers: NaN, null, undefined, an empty or a
\* blank string, a string that is no number, a plain object
NonNumericOperands ==
  { NaN, Null, Undefined, Str(<<>>), Str(<<" ">>), Str(<<"a", "b", "c">>),
    PlainObject }

\* C25: the left or right that expand returns for a non-numeric operand is
\* NaN, never 0.
NonNumericOperandGivesNaN ==
  called = "expand" =>
    /\ Arg(1) \in NonNumericOperands => IsNaN(result.left)
    /\ Arg(2) \in NonNumericOperands => IsNaN(result.right)

RangeIsNeverNegative ==
  called = "range" =>
    /\ result.ty = "number"
    /\ IsNaN(result) \/ IsZero(result) \/ result.s = 0

\* the string "1,000", and the arguments a with the number 1000 in its place
Grouped == Str(<<"1", ",", "0", "0", "0">>)

Ungrouped(a) ==
  SubSeq([i \in 1..Len(a) |-> IF a[i] = Grouped THEN Num(1000, 0) ELSE a[i]],
         1, Len(a))

\* C28: median, mode and range of a series with the string "1,000", and
\* reciprocal, square, sqrt and percent of that string, are what they are
\* with the number 1000 in its place.
GroupedStringIsItsNumber ==
  (\E i \in 1..Len(args) : args[i] = Grouped) =>
    LET a == Ungrouped(args)
    IN  CASE called \in {"median", "mode", "range"} ->
               Returns(called, a, result)
          [] called = "reciprocal" -> result = reciprocal(a[1])
          [] called = "square"     -> result = square(a[1])
          [] called = "sqrt"       -> result = sqrt(a[1])
          [] called = "percent"    -> result = percent(a[1])
          [] OTHER                 -> TRUE

\* C29: no call changes the array that the caller passed, and two calls of
\* a function with equal arguments return equal results, whatever was
\* called between them.
CallsArePure ==
  /\ called # "none" => args = log[Len(log)].given
  /\ \A i, j \in 1..Len(log) :
       (log[i].name = log[j].name /\ log[i].given = log[j].given)
         => log[i].result = log[j].result

CallsArePureWitness ==
  /\ Len(log) = 3
  /\ log[1].name = "minus" /\ log[2].name = "median" /\ log[3].name = "minus"
  /\ args = <<Array(<<Num(3, 0), Num(1, 0), Num(2, 0)>>)>>
  /\ result = Zero(0)

====
